---- MODULE Spec2Model ----
(***************************************************************************)
(* Need2Give backend: account provisioning, admin approval of donation     *)
(* centers, login and self-service update/delete.                          *)
(*                                                                         *)
(* The store is PostgreSQL reached through kysely.  A table is the set of  *)
(* its rows, a row is a record.  Every request handler is one action; the  *)
(* basic signup of src/api/auth/index.ts, which reads and then writes      *)
(* outside a transaction, is two actions with the request in flight        *)
(* between them.  The ids of account and of pending_account come from one  *)
(* sequence per table; a value taken by an insert that fails or is rolled  *)
(* back is not handed out again.                                           *)
(***************************************************************************)
EXTENDS Integers, FiniteSets, Sequences, TLC

VARIABLES
    account,                  \* table account
    user,                     \* table user (profile of role user)
    donation_center,          \* table donation_center (profile)
    pending_account,          \* table pending_account
    pending_donation_center,  \* table pending_donation_center
    accountSeq,               \* last value of the id sequence of account
    pendingSeq,               \* last value of the id sequence of pending_account
    inflight,                 \* basic signups between their pre-check and their insert
    trx,                      \* transactions whose callback has run and that have not ended
    mails,                    \* messages handed to transporter.sendMail and delivered
    last                      \* the response of the most recent request

tables == <<account, user, donation_center, pending_account, pending_donation_center>>
vars == <<account, user, donation_center, pending_account, pending_donation_center,
          accountSeq, pendingSeq, inflight, trx, mails, last>>

(***************************************************************************)
(* Bounds of the model.                                                    *)
(***************************************************************************)
MaxSeq == 2          \* rows a serial id sequence hands out in one run
MaxInflight == 1     \* basic signups in flight at once
MaxOpen == 2         \* transactions open at once

(***************************************************************************)
(* Request inputs.                                                         *)
(***************************************************************************)
Emails == {"a@x.com", "b@x.com"}
Passwords == {"p1", "p2"}
Phones == {"100", "200"}
Roles == {"donation_center", "user"}
EMAIL_ADMIN == "admin@need2give"

\* req.body.account: the first two requests share an email, the first and the
\* third a username; the second and the third collide on nothing.
AccountBodies ==
    { [email |-> "a@x.com", username |-> "a", password |-> "p1", phone_number |-> "100"],
      [email |-> "a@x.com", username |-> "b", password |-> "p2", phone_number |-> "100"],
      [email |-> "b@x.com", username |-> "a", password |-> "p2", phone_number |-> "100"] }

\* req.body.profile
ProfileBodies == { [name |-> "center"] }

(***************************************************************************)
(* Credential primitives (bcrypt, JWT).                                    *)
(***************************************************************************)
hash(plain) == <<"$2b$", plain>>

compare(plain, digest) == digest = hash(plain)

generateJWT(id, role) == [sub |-> id, role |-> role]

\* The basic variant signs the id alone.
generateJWTBasic(id) == [sub |-> id]

(***************************************************************************)
(* Store helpers.                                                          *)
(***************************************************************************)
Ids(table) == { r.id : r \in table }

\* const { password, ...rest } = row
StripPassword(row) == [f \in (DOMAIN row) \ {"password"} |-> row[f]]

\* const { id, ...rest } = row
StripId(row) == [f \in (DOMAIN row) \ {"id"} |-> row[f]]

\* { ...a, ...b }
Merge(a, b) == [f \in (DOMAIN a) \cup (DOMAIN b) |->
                   IF f \in DOMAIN b THEN b[f] ELSE a[f]]

\* { ...fields, id }
WithId(fields, id) == Merge(fields, [id |-> id])

\* The unique columns of account and pending_account a new row collides on.
DuplicateProperties(table, row) ==
    { c \in {"email", "username"} : \E r \in table : r[c] = row[c] }

\* The response handed to the client (res.status, the error message or the body).
Response(op, req, status, msg, accounts, token, trace) ==
    [op |-> op, req |-> req, status |-> status, msg |-> msg,
     accounts |-> accounts, token |-> token, trace |-> trace]

\* Variant: the delete removes nothing.
DeleteByIdNothing(table, id) == table

\* deleteFrom(table).where('id', '=', id): the rows that stay.
DeleteById(table, id) == { r \in table : r.id # id }

\* getDuplicateProperty(error): the column a unique violation names.
getDuplicateProperty(error) == error.column

\* The status of an error no handler set a status for.
UnhandledStatus == 500

\* The five tables as one value, as a transaction reads and writes them.
Tables ==
    [account |-> account, user |-> user, donation_center |-> donation_center,
     pending_account |-> pending_account,
     pending_donation_center |-> pending_donation_center]

\* Variant: the statements run outside a transaction.
TransactionNone(before, after, committed) == after

\* db.transaction().execute(callback): the callback's writes, or none of them
\* when the callback throws.
Transaction(before, after, committed) == IF committed THEN after ELSE before

\* The store holds the tables t after the request.
Store(t) ==
    /\ account' = t.account
    /\ user' = t.user
    /\ donation_center' = t.donation_center
    /\ pending_account' = t.pending_account
    /\ pending_donation_center' = t.pending_donation_center

\* ON DELETE CASCADE from account to its profile row.
CascadeAccount(t, ids) ==
    [t EXCEPT !.user = { r \in @ : r.id \notin ids },
              !.donation_center = { r \in @ : r.id \notin ids }]

\* The delete of pending_account rows has no referential action on
\* pending_donation_center: the pending profile rows stay.
CascadePending(t, ids) == t

Init ==
    /\ account = {}
    /\ user = {}
    /\ donation_center = {}
    /\ pending_account = {}
    /\ pending_donation_center = {}
    /\ accountSeq = 0
    /\ pendingSeq = 0
    /\ inflight = <<>>
    /\ trx = <<>>
    /\ mails = {}
    /\ last = Response("none", [role |-> "none"], 0, "", {}, {}, <<>>)

(***************************************************************************)
(* POST /signup?role=...  (provisioning router)                            *)
(***************************************************************************)
\* Variant: every signup goes to the active table.
AccountTableActive(role) == "account"

\* The table the account row of a signup goes to.
AccountTable(role) ==
    IF role = "donation_center" THEN "pending_account" ELSE "account"

\* The table the profile row of a signup goes to.
ProfileTable(role) ==
    IF role = "donation_center" THEN "pending_donation_center" ELSE "user"

\* insertInto(name).values(row)
Insert(t, name, row) == [t EXCEPT ![name] = @ \cup {row}]

\* The catch block of the signup handler: status and message of an error.
SignupCatch(error) ==
    IF error.name = "DatabaseError" /\ getDuplicateProperty(error) # "null"
    THEN [status |-> IF getDuplicateProperty(error) = "email" THEN 400 ELSE 409,
          msg |-> "Duplicate " \o getDuplicateProperty(error)]
    ELSE [status |-> UnhandledStatus, msg |-> error.name]

\* The id a table gives a row inserted without one: the next value of the
\* table's own serial sequence, seq being the last value it handed out.
nextval(seq) == seq + 1

SignupResponse(req, caught, trace) ==
    Response("signup", req, caught.status, caught.msg, {}, {}, trace)

Signup(role, body, profile, mailOk) ==
    LET req == [role |-> role, account |-> body, profile |-> profile]
        pending == AccountTable(role) = "pending_account"
        id == IF pending THEN nextval(pendingSeq) ELSE nextval(accountSeq)
        row == WithId([body EXCEPT !.password = hash(body.password)], id)
        prow == WithId(profile, id)
        dups == DuplicateProperties(Tables[AccountTable(role)], row)
        t1 == Insert(Tables, AccountTable(role), row)
        t2 == Insert(t1, ProfileTable(role), prow)
        insertA == "insert " \o AccountTable(role)
        insertP == "insert " \o ProfileTable(role)
    IN  /\ id <= MaxSeq
        \* nextval is not undone by a rollback
        /\ IF pending
           THEN pendingSeq' = id /\ UNCHANGED accountSeq
           ELSE accountSeq' = id /\ UNCHANGED pendingSeq
        /\ UNCHANGED <<inflight, trx>>
        /\ \/ /\ dups # {}
              /\ \E c \in dups :
                    last' = SignupResponse(req,
                               SignupCatch([name |-> "DatabaseError", column |-> c]),
                               <<"begin", insertA, "rollback">>)
              /\ Store(Transaction(Tables, Tables, FALSE))
              /\ UNCHANGED mails
           \/ /\ dups = {}
              /\ id \in Ids(Tables[ProfileTable(role)])
              /\ last' = SignupResponse(req,
                            SignupCatch([name |-> "DatabaseError", column |-> "id"]),
                            <<"begin", insertA, insertP, "rollback">>)
              /\ Store(Transaction(Tables, t1, FALSE))
              /\ UNCHANGED mails
           \/ /\ dups = {}
              /\ id \notin Ids(Tables[ProfileTable(role)])
              /\ role = "donation_center"
              /\ ~mailOk
              /\ last' = SignupResponse(req,
                            SignupCatch([name |-> "Error", column |-> "null"]),
                            <<"begin", insertA, insertP, "sendMail", "rollback">>)
              /\ Store(Transaction(Tables, t2, FALSE))
              /\ UNCHANGED mails
           \/ /\ dups = {}
              /\ id \notin Ids(Tables[ProfileTable(role)])
              /\ role = "donation_center"
              /\ mailOk
              /\ mails' = mails \cup {[kind |-> "signup", to |-> EMAIL_ADMIN, id |-> id]}
              /\ last' = Response("signup", req, 200, "Waiting for approval from admin",
                                  {}, {},
                                  <<"begin", insertA, insertP, "sendMail", "res.json",
                                    "commit">>)
              /\ Store(Transaction(Tables, t2, TRUE))
           \/ /\ dups = {}
              /\ id \notin Ids(Tables[ProfileTable(role)])
              /\ role # "donation_center"
              /\ last' = Response("signup", req, 200, "",
                                  {Merge(StripPassword(row), prow)},
                                  {generateJWT(id, "user")},
                                  <<"begin", insertA, insertP, "res.json", "commit">>)
              /\ Store(Transaction(Tables, t2, TRUE))
              /\ UNCHANGED mails

(***************************************************************************)
(* GET /approve/:id                                                        *)
(***************************************************************************)
\* Variant: the pending row is inserted with its id.
PromotedAccountKeepsId(pendingRow) == pendingRow

\* const { id: previousID, ...pendingAccount } = deleted row: the values the
\* account row is inserted from.
PromotedAccount(pendingRow) == StripId(pendingRow)

\* Variant: the profile keeps the pending id.
PromotedProfileKeepsId(pendingProfile, insertedAccount) == pendingProfile

\* { ...pendingDonationCenter, id: insertedAccount.id }
PromotedProfile(pendingProfile, insertedAccount) ==
    WithId(StripId(pendingProfile), insertedAccount.id)

\* insertInto('account').values(values).returningAll(): the id is the next value
\* of the sequence unless the values carry one.
InsertedAccount(values) ==
    IF "id" \in DOMAIN values THEN values ELSE WithId(values, nextval(accountSeq))

\* The catch block of the approve handler.
ApproveCatch(error) ==
    [status |-> CASE error.name = "NoResultError" -> 404
                  [] error.name = "DatabaseError" -> 400
                  [] OTHER -> UnhandledStatus,
     msg |-> error.name]

ApproveResponse(id, caught, trace) ==
    Response("approve", [id |-> id], caught.status, caught.msg, {}, {}, trace)

\* Variant: the pending account is deleted before the pending profile.
ApproveStatementsAccountFirst ==
    << [verb |-> "delete", table |-> "pending_account"],
       [verb |-> "delete", table |-> "pending_donation_center"],
       [verb |-> "insert", table |-> "account"],
       [verb |-> "insert", table |-> "donation_center"] >>

\* The statements of the callback of the approve transaction, in the order of
\* the code.
ApproveStatements ==
    << [verb |-> "delete", table |-> "pending_donation_center"],
       [verb |-> "delete", table |-> "pending_account"],
       [verb |-> "insert", table |-> "account"],
       [verb |-> "insert", table |-> "donation_center"] >>

\* The events of an approve transaction that ran its first n statements.
ApproveRan(n) ==
    <<"begin">> \o [i \in 1..n |-> ApproveStatements[i].verb \o " "
                                       \o ApproveStatements[i].table]

Approve(id, mailOk) ==
    LET first == ApproveStatements[1].table
        second == ApproveStatements[2].table
        d1 == { r \in Tables[first] : r.id = id }
        d2 == { r \in Tables[second] : r.id = id }
        pd == { r \in pending_donation_center : r.id = id }
        pa == { r \in pending_account : r.id = id }
        t1 == [Tables EXCEPT ![first] = DeleteById(@, id)]
        t2 == [t1 EXCEPT ![second] = DeleteById(@, id)]
        noResult == [name |-> "NoResultError", column |-> "null"]
    IN  /\ UNCHANGED <<pendingSeq, inflight, trx>>
        /\ \/ /\ d1 = {}
              /\ last' = ApproveResponse(id, ApproveCatch(noResult),
                             ApproveRan(1) \o <<"rollback">>)
              /\ Store(Transaction(Tables, Tables, FALSE))
              /\ UNCHANGED <<accountSeq, mails>>
           \/ /\ d1 # {}
              /\ d2 = {}
              /\ last' = ApproveResponse(id, ApproveCatch(noResult),
                             ApproveRan(2) \o <<"rollback">>)
              /\ Store(Transaction(Tables, t1, FALSE))
              /\ UNCHANGED <<accountSeq, mails>>
           \/ /\ d1 # {}
              /\ d2 # {}
              /\ accountSeq < MaxSeq
              /\ LET pendingProfile == CHOOSE r \in pd : TRUE
                     pendingRow == CHOOSE r \in pa : TRUE
                     insertedAccount == InsertedAccount(PromotedAccount(pendingRow))
                     insertedProfile == PromotedProfile(pendingProfile, insertedAccount)
                     dups == DuplicateProperties(account, insertedAccount)
                               \cup { c \in {"id"} : insertedAccount.id \in Ids(account) }
                     t3 == Insert(t2, "account", insertedAccount)
                     t4 == Insert(t3, "donation_center", insertedProfile)
                 IN  /\ accountSeq' = nextval(accountSeq)
                     /\ \/ /\ dups # {}
                           /\ \E c \in dups :
                                last' = ApproveResponse(id,
                                   ApproveCatch([name |-> "DatabaseError", column |-> c]),
                                   ApproveRan(3) \o <<"rollback">>)
                           /\ Store(Transaction(Tables, t2, FALSE))
                           /\ UNCHANGED mails
                        \/ /\ dups = {}
                           /\ insertedAccount.id \in Ids(donation_center)
                           /\ last' = ApproveResponse(id,
                                   ApproveCatch([name |-> "DatabaseError", column |-> "id"]),
                                   ApproveRan(4) \o <<"rollback">>)
                           /\ Store(Transaction(Tables, t3, FALSE))
                           /\ UNCHANGED mails
                        \/ /\ dups = {}
                           /\ insertedAccount.id \notin Ids(donation_center)
                           /\ Store(Transaction(Tables, t4, TRUE))
                           /\ IF mailOk
                              THEN /\ mails' = mails \cup
                                        {[kind |-> "approved", to |-> insertedAccount.email,
                                          id |-> id]}
                                   /\ last' = Response("approve", [id |-> id], 200,
                                        "Donation Center approved successfully!", {}, {},
                                        ApproveRan(4) \o <<"commit", "sendMail", "res.json">>)
                              ELSE /\ UNCHANGED mails
                                   /\ last' = ApproveResponse(id,
                                        ApproveCatch([name |-> "Error", column |-> "null"]),
                                        ApproveRan(4) \o <<"commit", "sendMail">>)

(***************************************************************************)
(* GET /reject/:id                                                         *)
(***************************************************************************)
\* Variant: a delete inside an open transaction locks nothing.
LockedNever(name, id) == FALSE

\* trx.deleteFrom(name).where('id', '=', id) inside a transaction that has not
\* ended: the deleted row is locked, and a delete of it by another request
\* waits for the end of the transaction.
Locked(name, id) ==
    \E i \in 1..Len(trx) :
        trx[i].op = "approve" /\ trx[i].id = id /\ name \in DOMAIN trx[i].rows

\* Variant: every error of the reject handler answers 200.
RejectCatchOk(error) == [status |-> 200, msg |-> error.name]

\* The catch block of the reject handler.
RejectCatch(error) ==
    [status |-> IF error.name = "NoResultError" THEN 404 ELSE UnhandledStatus,
     msg |-> error.name]

Reject(id, mailOk) ==
    LET pa == { r \in pending_account : r.id = id }
        caught(e) == RejectCatch([name |-> e, column |-> "null"])
    IN  /\ ~Locked("pending_account", id)
        /\ UNCHANGED <<account, user, donation_center, accountSeq, pendingSeq, inflight,
                       trx>>
        /\ pending_donation_center' =
               CascadePending(Tables, Ids(pa)).pending_donation_center
        /\ \/ /\ pa = {}
              /\ last' = Response("reject", [id |-> id], caught("NoResultError").status,
                                  caught("NoResultError").msg, {}, {},
                                  <<"delete pending_account">>)
              /\ UNCHANGED <<pending_account, mails>>
           \/ /\ pa # {}
              /\ pending_account' = DeleteById(pending_account, id)
              /\ IF mailOk
                 THEN /\ mails' = mails \cup
                           {[kind |-> "rejected", to |-> (CHOOSE r \in pa : TRUE).email,
                             id |-> id]}
                      /\ last' = Response("reject", [id |-> id], 200,
                                    "Donation Center rejected successfully!", {}, {},
                                    <<"delete pending_account", "sendMail", "res.json">>)
                 ELSE /\ UNCHANGED mails
                      /\ last' = Response("reject", [id |-> id], caught("Error").status,
                                    caught("Error").msg, {}, {},
                                    <<"delete pending_account", "sendMail">>)

(***************************************************************************)
(* POST /login, PATCH /, DELETE /                                          *)
(***************************************************************************)
\* selectFrom('account').where('email', '=', email)
ByEmail(email) == { a \in account : a.email = email }

\* Variant: the test of the user lookup is inverted.
RoleOfInverted(users, id) == IF id \in Ids(users) THEN "donation_center" ELSE "user"

\* The role of an account is its presence in the user table.
RoleOf(users, id) == IF id \in Ids(users) THEN "user" ELSE "donation_center"

\* Variant: an unknown email is answered as not found.
CredentialCatchNotFound(error) ==
    CASE error = "NoResultError" -> [status |-> 404, msg |-> "Not found"]
      [] error = "EvalError" -> [status |-> 400, msg |-> "Invalid credentials"]
      [] OTHER -> [status |-> UnhandledStatus, msg |-> error]

\* The catch block of login and of self-update: NoResultError and EvalError.
CredentialCatch(error) ==
    IF error \in {"NoResultError", "EvalError"}
    THEN [status |-> 400, msg |-> "Invalid credentials"]
    ELSE [status |-> UnhandledStatus, msg |-> error]

\* What POST /login answers over the tables accounts and users.
LoginResponse(accounts, users, email, password) ==
    LET req == [email |-> email, password |-> password]
        found == { a \in accounts : a.email = email }
        failed(e) == Response("login", req, CredentialCatch(e).status,
                              CredentialCatch(e).msg, {}, {}, <<"select account">>)
    IN  IF found = {} THEN failed("NoResultError")
        ELSE LET a == CHOOSE r \in found : TRUE
             IN  IF ~compare(password, a.password) THEN failed("EvalError")
                 ELSE Response("login", req, 200, "", {StripPassword(a)},
                               {generateJWT(a.id, RoleOf(users, a.id))},
                               <<"select account", "select user", "res.json">>)

Login(email, password) ==
    /\ last' = LoginResponse(account, user, email, password)
    /\ UNCHANGED <<tables, accountSeq, pendingSeq, inflight, trx, mails>>

\* set({ phone_number }) on one row
Updated(row, phone_number) == [row EXCEPT !.phone_number = phone_number]

\* Variant: the password is not compared.
PatchAuthorizedAlways(password, row) == TRUE

\* May the request act on the row: bcrypt.compare of the request's password.
PatchAuthorized(password, row) == compare(password, row.password)

Patch(email, password, phone_number) ==
    LET req == [email |-> email, password |-> password, phone_number |-> phone_number]
        found == ByEmail(email)
        failed(e) == Response("patch", req, CredentialCatch(e).status,
                              CredentialCatch(e).msg, {}, {}, <<"select account">>)
    IN  /\ UNCHANGED <<user, donation_center, pending_account, pending_donation_center,
                       accountSeq, pendingSeq, inflight, trx, mails>>
        /\ IF found = {}
           THEN last' = failed("NoResultError") /\ UNCHANGED account
           ELSE LET a == CHOOSE r \in found : TRUE
                IN  IF ~PatchAuthorized(password, a)
                    THEN last' = failed("EvalError") /\ UNCHANGED account
                    ELSE /\ account' = { IF r.id = a.id THEN Updated(r, phone_number)
                                                        ELSE r : r \in account }
                         /\ last' = Response("patch", req, 200, "",
                                       {StripPassword(Updated(a, phone_number))}, {},
                                       <<"select account", "update account", "res.json">>)

\* The rows DELETE / removes: deleteFrom('account').where('email', '=', email).
DeleteTarget(email, password) == ByEmail(email)

Delete(email, password) ==
    LET req == [email |-> email, password |-> password]
        found == DeleteTarget(email, password)
    IN  /\ UNCHANGED <<pending_account, pending_donation_center,
                       accountSeq, pendingSeq, inflight, trx, mails>>
        /\ IF found = {}
           THEN /\ last' = Response("delete", req, 404, "NoResultError", {}, {},
                                    <<"delete account">>)
                /\ UNCHANGED <<account, user, donation_center>>
           ELSE /\ account' = account \ found
                /\ user' = CascadeAccount(Tables, Ids(found)).user
                /\ donation_center' = CascadeAccount(Tables, Ids(found)).donation_center
                /\ last' = Response("delete", req, 200, "",
                                    {StripPassword(CHOOSE r \in found : TRUE)}, {},
                                    <<"delete account", "res.json">>)

(***************************************************************************)
(* The basic router: POST /signup, POST /login                             *)
(***************************************************************************)
\* The rows the pre-check selects: email or username taken.
DuplicateAccounts(body) ==
    { a \in account : a.email = body.email \/ a.username = body.username }

\* The pre-check found a row: res.status(400) and the message by the row's email.
PreCheckResponse(body, duplicateAccount) ==
    Response("signup_basic", body, 400,
             IF duplicateAccount.email = body.email
             THEN "This account already exists, please login"
             ELSE "This username is unavailable",
             {}, {}, <<"select account">>)

\* An error of the insert reaches next(error) with no status set.
BasicInsertError(body, error) ==
    Response("signup_basic", body, UnhandledStatus, error.name, {}, {},
             <<"select account", "insert account">>)

\* The pre-check of the basic signup; a request that passes it is in flight.
SignupBasicCheck(body) ==
    /\ UNCHANGED <<tables, accountSeq, pendingSeq, mails>>
    /\ \/ /\ DuplicateAccounts(body) # {}
          /\ \E d \in DuplicateAccounts(body) : last' = PreCheckResponse(body, d)
          /\ UNCHANGED <<inflight, trx>>
       \/ /\ DuplicateAccounts(body) = {}
          /\ Len(inflight) < MaxInflight
          /\ accountSeq + Len(inflight) < MaxSeq
          /\ inflight' = Append(inflight, body)
          /\ UNCHANGED trx
          /\ UNCHANGED last

\* The insert of the i-th basic signup in flight.
SignupBasicInsert(i) ==
    LET body == inflight[i]
        id == nextval(accountSeq)
        row == WithId([body EXCEPT !.password = hash(body.password)], id)
        dups == DuplicateProperties(account, row)
    IN  /\ id <= MaxSeq
        /\ accountSeq' = id
        /\ inflight' = SubSeq(inflight, 1, i - 1) \o SubSeq(inflight, i + 1, Len(inflight))
        /\ UNCHANGED trx
        /\ UNCHANGED <<user, donation_center, pending_account, pending_donation_center,
                       pendingSeq, mails>>
        /\ IF dups # {}
           THEN /\ \E c \in dups :
                     last' = BasicInsertError(body, [name |-> "DatabaseError", column |-> c])
                /\ UNCHANGED account
           ELSE /\ account' = account \cup {row}
                /\ last' = Response("signup_basic", body, 200, "", {StripPassword(row)},
                                    {generateJWTBasic(id)},
                                    <<"select account", "insert account", "res.json">>)

\* The catch block of the basic login.
BasicCredentialCatch(error) ==
    IF error \in {"NoResultError", "EvalError"}
    THEN [status |-> 400, msg |-> "Invalid credentials"]
    ELSE [status |-> UnhandledStatus, msg |-> error]

\* What the basic POST /login answers over the table accounts.
LoginBasicResponse(accounts, email, password) ==
    LET req == [email |-> email, password |-> password]
        found == { a \in accounts : a.email = email }
        failed(e) == Response("login_basic", req, BasicCredentialCatch(e).status,
                              BasicCredentialCatch(e).msg, {}, {}, <<"select account">>)
    IN  IF found = {} THEN failed("NoResultError")
        ELSE LET a == CHOOSE r \in found : TRUE
             IN  IF ~compare(password, a.password) THEN failed("EvalError")
                 ELSE Response("login_basic", req, 200, "", {StripPassword(a)},
                               {generateJWTBasic(a.id)},
                               <<"select account", "res.json">>)

LoginBasic(email, password) ==
    /\ last' = LoginBasicResponse(account, email, password)
    /\ UNCHANGED <<tables, accountSeq, pendingSeq, inflight, trx, mails>>

(***************************************************************************)
(* The accounts router: GET /, GET /:id (past authValidator)               *)
(***************************************************************************)
\* selectFrom('account').selectAll().execute() as the body
GetAccounts ==
    /\ last' = Response("accounts", [path |-> "/"], 200, "", account, {},
                        <<"select account", "res.json">>)
    /\ UNCHANGED <<tables, accountSeq, pendingSeq, inflight, trx, mails>>

\* selectAll().where('id', '=', id).executeTakeFirstOrThrow() as the body
GetAccount(id) ==
    LET found == { a \in account : a.id = id }
    IN  /\ last' = IF found = {}
                   THEN Response("account", [id |-> id], 404, "NoResultError", {}, {},
                                 <<"select account">>)
                   ELSE Response("account", [id |-> id], 200, "", found, {},
                                 <<"select account", "res.json">>)
        /\ UNCHANGED <<tables, accountSeq, pendingSeq, inflight, trx, mails>>

(***************************************************************************)
(* The transactions of signup and approve, step by step.                   *)
(***************************************************************************)
\* The sequence without its i-th element.
Remove(seq, i) == SubSeq(seq, 1, i - 1) \o SubSeq(seq, i + 1, Len(seq))

\* The account rows that signups whose transaction is open have inserted in the
\* table: an insert with one of their unique values waits for their end.
Uncommitted(name) ==
    { trx[i].rows[name] :
        i \in { k \in 1..Len(trx) : trx[k].op = "signup" /\ name \in DOMAIN trx[k].rows } }

\* The callback of the signup transaction: both inserts, the admin mail of a
\* donation center, and res.json; the transaction is then open until its commit.
\* A callback that throws rolls back as in Signup.
SignupCallback(role, body, profile, mailOk) ==
    LET req == [role |-> role, account |-> body, profile |-> profile]
        pending == AccountTable(role) = "pending_account"
        id == IF pending THEN nextval(pendingSeq) ELSE nextval(accountSeq)
        row == WithId([body EXCEPT !.password = hash(body.password)], id)
        prow == WithId(profile, id)
        insertA == "insert " \o AccountTable(role)
        insertP == "insert " \o ProfileTable(role)
    IN  /\ DuplicateProperties(Uncommitted(AccountTable(role)), row) = {}
        /\ \/ /\ Signup(role, body, profile, mailOk)
              /\ last'.status # 200
           \/ /\ id <= MaxSeq
              /\ Len(trx) < MaxOpen
              /\ DuplicateProperties(Tables[AccountTable(role)], row) = {}
              /\ id \notin Ids(Tables[ProfileTable(role)])
              /\ IF pending
                 THEN pendingSeq' = id /\ UNCHANGED accountSeq
                 ELSE accountSeq' = id /\ UNCHANGED pendingSeq
              /\ IF role = "donation_center"
                 THEN /\ mailOk
                      /\ mails' = mails \cup
                            {[kind |-> "signup", to |-> EMAIL_ADMIN, id |-> id]}
                      /\ last' = Response("signup", req, 200,
                                    "Waiting for approval from admin", {}, {},
                                    <<"begin", insertA, insertP, "sendMail", "res.json">>)
                 ELSE /\ UNCHANGED mails
                      /\ last' = Response("signup", req, 200, "",
                                    {Merge(StripPassword(row), prow)},
                                    {generateJWT(id, "user")},
                                    <<"begin", insertA, insertP, "res.json">>)
              /\ trx' = Append(trx, [op |-> "signup", id |-> id, role |-> role,
                                     rows |-> (AccountTable(role) :> row)
                                                @@ (ProfileTable(role) :> prow)])
              /\ UNCHANGED <<tables, inflight>>

\* The end of execute() after the callback of a signup has returned: the commit
\* of its inserts, or their rollback when the commit throws; the response of the
\* callback has been sent.
SignupCommit(i, commitOk) ==
    LET txn == trx[i]
        t1 == Insert(Tables, AccountTable(txn.role), txn.rows[AccountTable(txn.role)])
        t2 == Insert(t1, ProfileTable(txn.role), txn.rows[ProfileTable(txn.role)])
    IN  /\ txn.op = "signup"
        /\ Store(Transaction(Tables, t2, commitOk))
        /\ trx' = Remove(trx, i)
        /\ UNCHANGED <<accountSeq, pendingSeq, inflight, mails, last>>

\* The first statement of the approve transaction: a row that another open
\* transaction has deleted makes the statement wait.
ApproveBegin(id) ==
    LET first == ApproveStatements[1].table
        d1 == { r \in Tables[first] : r.id = id }
    IN  /\ ~Locked(first, id)
        /\ UNCHANGED <<tables, accountSeq, pendingSeq, inflight, mails>>
        /\ \/ /\ d1 = {}
              /\ last' = ApproveResponse(id,
                             ApproveCatch([name |-> "NoResultError", column |-> "null"]),
                             ApproveRan(1) \o <<"rollback">>)
              /\ UNCHANGED trx
           \/ /\ d1 # {}
              /\ Len(trx) < MaxOpen
              /\ trx' = Append(trx, [op |-> "approve", id |-> id,
                                     role |-> "donation_center",
                                     rows |-> (first :> (CHOOSE r \in d1 : TRUE))])
              /\ UNCHANGED last

\* The second statement of the i-th open transaction, an approve.
ApproveNext(i) ==
    LET txn == trx[i]
        second == ApproveStatements[2].table
        d2 == { r \in Tables[second] : r.id = txn.id }
    IN  /\ txn.op = "approve"
        /\ second \notin DOMAIN txn.rows
        /\ ~Locked(second, txn.id)
        /\ UNCHANGED <<tables, accountSeq, pendingSeq, inflight, mails>>
        /\ \/ /\ d2 = {}
              /\ last' = ApproveResponse(txn.id,
                             ApproveCatch([name |-> "NoResultError", column |-> "null"]),
                             ApproveRan(2) \o <<"rollback">>)
              /\ trx' = Remove(trx, i)
           \/ /\ d2 # {}
              /\ trx' = [trx EXCEPT ![i].rows = @ @@ (second :> (CHOOSE r \in d2 : TRUE))]
              /\ UNCHANGED last

\* The inserts and the end of the i-th open transaction, an approve that has
\* deleted both pending rows, then the mail and the response.
ApproveEnd(i, mailOk) ==
    LET txn == trx[i]
        id == txn.id
        t1 == [Tables EXCEPT ![ApproveStatements[1].table] = DeleteById(@, id)]
        t2 == [t1 EXCEPT ![ApproveStatements[2].table] = DeleteById(@, id)]
    IN  /\ txn.op = "approve"
        /\ ApproveStatements[2].table \in DOMAIN txn.rows
        /\ accountSeq < MaxSeq
        /\ trx' = Remove(trx, i)
        /\ UNCHANGED <<pendingSeq, inflight>>
        /\ LET insertedAccount ==
                   InsertedAccount(PromotedAccount(txn.rows["pending_account"]))
               insertedProfile ==
                   PromotedProfile(txn.rows["pending_donation_center"], insertedAccount)
               dups == DuplicateProperties(account, insertedAccount)
                         \cup { c \in {"id"} : insertedAccount.id \in Ids(account) }
               t3 == Insert(t2, "account", insertedAccount)
               t4 == Insert(t3, "donation_center", insertedProfile)
           IN  /\ accountSeq' = nextval(accountSeq)
               /\ \/ /\ dups # {}
                     /\ \E c \in dups :
                          last' = ApproveResponse(id,
                             ApproveCatch([name |-> "DatabaseError", column |-> c]),
                             ApproveRan(3) \o <<"rollback">>)
                     /\ Store(Transaction(Tables, t2, FALSE))
                     /\ UNCHANGED mails
                  \/ /\ dups = {}
                     /\ insertedAccount.id \in Ids(donation_center)
                     /\ last' = ApproveResponse(id,
                             ApproveCatch([name |-> "DatabaseError", column |-> "id"]),
                             ApproveRan(4) \o <<"rollback">>)
                     /\ Store(Transaction(Tables, t3, FALSE))
                     /\ UNCHANGED mails
                  \/ /\ dups = {}
                     /\ insertedAccount.id \notin Ids(donation_center)
                     /\ Store(Transaction(Tables, t4, TRUE))
                     /\ IF mailOk
                        THEN /\ mails' = mails \cup
                                  {[kind |-> "approved", to |-> insertedAccount.email,
                                    id |-> id]}
                             /\ last' = Response("approve", [id |-> id], 200,
                                  "Donation Center approved successfully!", {}, {},
                                  ApproveRan(4) \o <<"commit", "sendMail", "res.json">>)
                        ELSE /\ UNCHANGED mails
                             /\ last' = ApproveResponse(id,
                                  ApproveCatch([name |-> "Error", column |-> "null"]),
                                  ApproveRan(4) \o <<"commit", "sendMail">>)

(***************************************************************************)
(* The requests, one definition per endpoint.                              *)
(***************************************************************************)
SignupRequest ==
    \E role \in Roles, body \in AccountBodies, profile \in ProfileBodies,
       mailOk \in BOOLEAN : Signup(role, body, profile, mailOk)

ApproveRequest == \E id \in 1..MaxSeq, mailOk \in BOOLEAN : Approve(id, mailOk)

RejectRequest == \E id \in 1..MaxSeq, mailOk \in BOOLEAN : Reject(id, mailOk)

LoginRequest == \E email \in Emails, password \in Passwords : Login(email, password)

PatchRequest ==
    \E email \in Emails, password \in Passwords, phone_number \in Phones :
       Patch(email, password, phone_number)

DeleteRequest == \E email \in Emails, password \in Passwords : Delete(email, password)

SignupBasicRequest == \E body \in AccountBodies : SignupBasicCheck(body)

SignupBasicResume == \E i \in 1..Len(inflight) : SignupBasicInsert(i)

LoginBasicRequest ==
    \E email \in Emails, password \in Passwords : LoginBasic(email, password)

AccountsRequest == GetAccounts

AccountRequest == \E id \in 1..MaxSeq : GetAccount(id)

\* Provisioning: signup, the admin's decision, and deletion of active accounts.
NextProvision == SignupRequest \/ ApproveRequest \/ RejectRequest \/ DeleteRequest

SpecProvision == Init /\ [][NextProvision]_vars

\* Self-service: accounts are created and promoted, then updated and deleted.
NextSession == SignupRequest \/ ApproveRequest \/ PatchRequest \/ DeleteRequest

SpecSession == Init /\ [][NextSession]_vars

\* Login of both routers over active accounts of both roles.
NextLogin == SignupRequest \/ ApproveRequest \/ LoginRequest \/ LoginBasicRequest

SpecLogin == Init /\ [][NextLogin]_vars

\* Signups of both routers racing on the account table.
NextSignup == SignupRequest \/ SignupBasicRequest \/ SignupBasicResume

SpecSignup == Init /\ [][NextSignup]_vars

\* Every endpoint that answers with accounts, over accounts of user signups.
NextAccounts ==
    SignupRequest \/ LoginRequest \/ PatchRequest \/ AccountsRequest \/ AccountRequest

SpecAccounts == Init /\ [][NextAccounts]_vars

SignupCallbackRequest ==
    \E role \in Roles, body \in AccountBodies, profile \in ProfileBodies,
       mailOk \in BOOLEAN : SignupCallback(role, body, profile, mailOk)

SignupCommitStep == \E i \in 1..Len(trx), commitOk \in BOOLEAN : SignupCommit(i, commitOk)

CenterSignupRequest ==
    \E body \in AccountBodies, profile \in ProfileBodies, mailOk \in BOOLEAN :
       Signup("donation_center", body, profile, mailOk)

ApproveBeginRequest == \E id \in 1..MaxSeq : ApproveBegin(id)

ApproveNextStep == \E i \in 1..Len(trx) : ApproveNext(i)

ApproveEndStep == \E i \in 1..Len(trx), mailOk \in BOOLEAN : ApproveEnd(i, mailOk)

\* Signups whose response and commit are separate steps.
NextCommit == SignupCallbackRequest \/ SignupCommitStep

SpecCommit == Init /\ [][NextCommit]_vars

\* Approve step by step, concurrent with Reject and with other Approves.
NextRace ==
    \/ CenterSignupRequest
    \/ ApproveBeginRequest
    \/ ApproveNextStep
    \/ ApproveEndStep
    \/ RejectRequest

SpecRace == Init /\ [][NextRace]_vars

\* Every endpoint, each handler run without interleaving.
Next ==
    \/ SignupRequest
    \/ ApproveRequest
    \/ RejectRequest
    \/ LoginRequest
    \/ PatchRequest
    \/ DeleteRequest
    \/ SignupBasicRequest
    \/ SignupBasicResume
    \/ LoginBasicRequest
    \/ AccountsRequest
    \/ AccountRequest

Spec == Init /\ [][Next]_vars

(***************************************************************************)
(* Properties of provisioning and approval.                                *)
(***************************************************************************)
\* The step is a donation-center signup.
IsCenterSignup(response) ==
    response.op = "signup" /\ response.req.role = "donation_center"

\* C1: a donation-center signup leaves account, user and donation_center as
\* they were (it writes pending_account and pending_donation_center only), and
\* a donation_center row or an account row that did not come from a user signup
\* appears only in a step of Approve.
C1_SignupWritesOnlyPending ==
    [][ /\ IsCenterSignup(last') =>
              UNCHANGED <<account, user, donation_center>>
        /\ ~(Ids(donation_center') \subseteq Ids(donation_center)) =>
              last'.op = "approve"
        /\ ~(Ids(account') \subseteq Ids(account)) =>
              \/ last'.op \in {"approve", "signup_basic"}
              \/ last'.op = "signup" /\ last'.req.role = "user"
      ]_vars

\* A donation-center signup has answered 200, its pair is pending and nothing
\* active carries its email.
C1_Witness ==
    /\ IsCenterSignup(last)
    /\ last.status = 200
    /\ \E r \in pending_account :
          /\ r.email = last.req.account.email
          /\ r.id \in Ids(pending_donation_center)
    /\ \A a \in account : a.email # last.req.account.email
    /\ donation_center = {}

\* The step is an Approve that answered 200.
Approved(response) == response.op = "approve" /\ response.status = 200

\* C2: after a successful Approve(id) no pending row has the id, one new account
\* row and one new donation_center row share an id and carry the fields of the
\* pending pair, and a login with the account's email and password answers 200
\* with a token of role donation_center.
C2_ApprovePromotes ==
    [][ Approved(last') =>
          LET id == last'.req.id
          IN  /\ id \notin Ids(pending_account')
              /\ id \notin Ids(pending_donation_center')
              /\ \E pa \in pending_account, pd \in pending_donation_center :
                    /\ pa.id = id
                    /\ pd.id = id
                    /\ \E a \in account' \ account, d \in donation_center' \ donation_center :
                          /\ StripId(a) = StripId(pa)
                          /\ StripId(d) = StripId(pd)
                          /\ d.id = a.id
                          /\ \E p \in Passwords :
                                LET r == LoginResponse(account', user', a.email, p)
                                IN  /\ compare(p, pa.password)
                                    /\ r.status = 200
                                    /\ r.token = {generateJWT(a.id, "donation_center")}
      ]_vars

\* Approve has answered 200 and the promoted account sits beside a user account.
C2_Witness ==
    /\ Approved(last)
    /\ \E a \in account : a.id \in Ids(donation_center)
    /\ \E a \in account : a.id \in Ids(user)

\* C3 as stated: the account a successful Approve(id) creates has the id id.
C3_SamePendingId ==
    [][ Approved(last') => \E a \in account' \ account : a.id = last'.req.id ]_vars

\* C3, amended: the account a successful Approve(id) creates has the next value
\* of the id sequence of the account table, an id no account row had, whatever
\* the pending id was, and the new donation_center row has that id.
C3_FreshAccountId ==
    [][ Approved(last') =>
          /\ \E a \in account' : account' \ account = {a} /\ a.id = accountSeq + 1
          /\ accountSeq' = accountSeq + 1
          /\ \A a \in account : a.id <= accountSeq
          /\ Ids(donation_center') \ Ids(donation_center) = {accountSeq + 1}
      ]_vars

\* Approve(id) has answered 200 and no account has the id id.
C3_Witness ==
    /\ Approved(last)
    /\ last.req.id \notin Ids(account)
    /\ account # {}

\* A unique column of the pending account row with this id is taken by an
\* active account.
Collides(id) ==
    \E pa \in pending_account, a \in account :
       pa.id = id /\ (a.email = pa.email \/ a.username = pa.username)

\* C4: an Approve(id) with a pending row of the pair missing answers 404, one
\* whose account insert violates a unique constraint answers 400, and in both
\* cases, as in every Approve answering 400 or 404, the five tables are as
\* before the request.
C4_ApproveAtomic ==
    [][ last'.op = "approve" =>
          LET id == last'.req.id
              missing == id \notin Ids(pending_account)
                           \/ id \notin Ids(pending_donation_center)
          IN  /\ missing => last'.status = 404
              /\ (~missing /\ Collides(id)) => last'.status = 400
              /\ last'.status = 404 => missing
              /\ last'.status = 400 => (~missing /\ Collides(id))
              /\ last'.status \in {400, 404} => UNCHANGED tables
      ]_vars

\* Approve has answered 400 on a pending pair whose email an active account
\* holds; the pair is still pending.
C4_Witness ==
    /\ last.op = "approve"
    /\ last.status = 400
    /\ \E pa \in pending_account, a \in account :
          pa.id = last.req.id /\ a.email = pa.email
    /\ last.req.id \in Ids(pending_donation_center)

\* Approve(id) or Reject(id) has answered 200 before: its mail is delivered.
Decided(id) ==
    \E m \in mails : m.id = id /\ m.kind \in {"approved", "rejected"}

\* C5: an Approve(id) or Reject(id) after a successful Approve(id) or
\* Reject(id) answers 404, adds no account and sends no mail, and a decided id
\* stays decided.
C5_DecidedStaysDecided ==
    [][ /\ (last'.op \in {"approve", "reject"} /\ Decided(last'.req.id)) =>
              /\ last'.status = 404
              /\ UNCHANGED <<account, donation_center, mails>>
        /\ \A id \in 1..MaxSeq :
              Decided(id) => (Decided(id)' /\ id \notin Ids(pending_account'))
      ]_vars

\* A request on a decided id has answered 404.
C5_Witness ==
    /\ last.op \in {"approve", "reject"}
    /\ last.status = 404
    /\ Decided(last.req.id)

(***************************************************************************)
(* Properties of self-service and login.                                   *)
(***************************************************************************)
\* The accounts with the email of the request whose password it does not match.
WrongPassword(req) ==
    { a \in account : a.email = req.email /\ ~compare(req.password, a.password) }

\* The accounts with the email of the request whose password it matches.
RightPassword(req) ==
    { a \in account : a.email = req.email /\ compare(req.password, a.password) }

\* C6: a self-delete with the email of an account and a password that does not
\* match its digest answers Invalid credentials and leaves the account table as
\* it was.
C6_DeleteChecksPassword ==
    [][ (last'.op = "delete" /\ WrongPassword(last'.req) # {}) =>
          /\ last'.status = 400
          /\ last'.msg = "Invalid credentials"
          /\ UNCHANGED account
      ]_vars

\* C7: a self-update with the email of an account and a password that does not
\* match answers 400 Invalid credentials and leaves the account table as it was;
\* with the matching password it answers 200 and the account table differs in
\* the phone_number of that one row only; no other table changes.
C7_PatchChecksPassword ==
    [][ last'.op = "patch" =>
          /\ UNCHANGED <<user, donation_center, pending_account,
                         pending_donation_center>>
          /\ WrongPassword(last'.req) # {} =>
                /\ last'.status = 400
                /\ last'.msg = "Invalid credentials"
                /\ last'.accounts = {}
                /\ UNCHANGED account
          /\ \A a \in RightPassword(last'.req) :
                /\ last'.status = 200
                /\ account' = (account \ {a}) \cup
                                {[a EXCEPT !.phone_number = last'.req.phone_number]}
      ]_vars

\* A self-update with a wrong password and another phone number than the stored
\* one has answered 400.
C7_Witness ==
    /\ last.op = "patch"
    /\ last.status = 400
    /\ \E a \in WrongPassword(last.req) : a.phone_number # last.req.phone_number

\* The step answers a signup that writes the account table: a user signup of
\* the provisioning router, or a basic signup at its pre-check or its insert.
AnswersAccountSignup ==
    \/ last'.op = "signup" /\ last'.req.role = "user"
    \/ last'.op = "signup_basic" /\ Len(inflight') <= Len(inflight)

\* The account body of the signup a response answers.
SignupBody(response) ==
    IF response.op = "signup" THEN response.req.account ELSE response.req

EmailTaken(body) == \E a \in account : a.email = body.email

UsernameTaken(body) == \E a \in account : a.username = body.username

\* C8: a signup whose email an account took (before it, or between its
\* pre-check and its insert) and whose username is free answers 400 with a
\* duplicate-email message, and adds no account.
C8_DuplicateEmailIs400 ==
    [][ (AnswersAccountSignup /\ EmailTaken(SignupBody(last'))
            /\ ~UsernameTaken(SignupBody(last'))) =>
          /\ last'.status = 400
          /\ last'.msg \in {"Duplicate email",
                            "This account already exists, please login"}
          /\ UNCHANGED account
      ]_vars

\* C9: a signup whose username an account with another email holds, and whose
\* email is free, answers 409 and adds no account.
C9_DuplicateUsernameIs409 ==
    [][ (AnswersAccountSignup /\ UsernameTaken(SignupBody(last'))
            /\ ~EmailTaken(SignupBody(last'))) =>
          /\ last'.status = 409
          /\ UNCHANGED account
      ]_vars

\* What a client sees of a response.
Outcome(response) ==
    [status |-> response.status, msg |-> response.msg,
     accounts |-> response.accounts, token |-> response.token]

InvalidCredentials ==
    [status |-> 400, msg |-> "Invalid credentials", accounts |-> {}, token |-> {}]

\* C10: a login, of either router, with the email of an account and a wrong
\* password and a login with an email of no account have the same outcome,
\* status 400 and message Invalid credentials with no account and no token, and
\* change nothing.
C10_LoginFailuresAlike ==
    [][ (last'.op \in {"login", "login_basic"} /\ RightPassword(last'.req) = {}) =>
          /\ Outcome(last') = InvalidCredentials
          /\ UNCHANGED <<tables, accountSeq, pendingSeq, inflight, mails>>
      ]_vars

\* In one state a login with a wrong password and a login with an unknown email
\* are both possible, and the first has just been answered 400.
C10_Witness ==
    /\ last.op = "login"
    /\ last.status = 400
    /\ WrongPassword(last.req) # {}
    /\ \E email \in Emails : \A a \in account : a.email # email

(***************************************************************************)
(* Properties of role resolution.                                          *)
(***************************************************************************)
\* The step is a user signup of the provisioning router.
IsUserSignup(response) == response.op = "signup" /\ response.req.role = "user"

\* The passwords a digest verifies.
PlainOf(digest) == { p \in Passwords : compare(p, digest) }

\* C11: a user signup with a free email and a free username answers 200; after
\* it, and in every later state that still holds the account, a login with its
\* email and password answers 200 with a token of the account's id and the role
\* user; every login that answers 200 carries the role user when the account's
\* id is in the user table and donation_center when it is not.
C11_UserSignupLogsIn ==
    [][ /\ IsUserSignup(last') =>
              LET body == last'.req.account
                  r == LoginResponse(account', user', body.email, body.password)
              IN  /\ (~EmailTaken(body) /\ ~UsernameTaken(body)) => last'.status = 200
                  /\ last'.status = 200 =>
                        /\ r.status = 200
                        /\ \E a \in account' \ account :
                              /\ a.email = body.email
                              /\ r.token = {generateJWT(a.id, "user")}
                              /\ last'.token = r.token
        /\ \A a \in account' : \A p \in PlainOf(a.password) :
              LET r == LoginResponse(account', user', a.email, p)
              IN  /\ r.status = 200
                  /\ r.token = {generateJWT(a.id, IF a.id \in Ids(user') THEN "user"
                                                  ELSE "donation_center")}
        /\ (last'.op = "login" /\ last'.status = 200) =>
              \E a \in account :
                 /\ a.email = last'.req.email
                 /\ last'.token =
                      {generateJWT(a.id, IF a.id \in Ids(user) THEN "user"
                                        ELSE "donation_center")}
      ]_vars

\* A login has answered 200 with the role user while an account of the other
\* role exists.
C11_Witness ==
    /\ last.op = "login"
    /\ last.status = 200
    /\ \E t \in last.token : t.role = "user" /\ t.sub \in Ids(user)
    /\ \E a \in account : a.id \notin Ids(user)

(***************************************************************************)
(* Properties of the responses.                                            *)
(***************************************************************************)
\* C12: no account in a response has the field password.
C12_NoDigestInResponse ==
    \A a \in last.accounts : "password" \notin DOMAIN a

(***************************************************************************)
(* Properties of the notifications.                                        *)
(***************************************************************************)
\* The handler has reached the event e.
Reached(response, e) == \E i \in DOMAIN response.trace : response.trace[i] = e

\* The events of the handler before its event e.
Before(response, e) ==
    { response.trace[j] :
        j \in { k \in DOMAIN response.trace :
                   \E i \in DOMAIN response.trace : response.trace[i] = e /\ k < i } }

\* The step is a request of a workflow that notifies and has called sendMail.
Notifies(response) ==
    /\ response.op \in {"signup", "approve", "reject"}
    /\ Reached(response, "sendMail")

\* C13: a request that calls sendMail has committed its store change before the
\* call (the transaction's commit, or the single delete of Reject), rolls
\* nothing back after it, and leaves its store change in the tables whether the
\* mail is delivered or not.
C13_NotifyAfterCommit ==
    [][ Notifies(last') =>
          /\ Reached(last', "begin") => "commit" \in Before(last', "sendMail")
          /\ ~Reached(last', "begin") =>
                "delete pending_account" \in Before(last', "sendMail")
          /\ ~Reached(last', "rollback")
          /\ tables' # tables
      ]_vars

\* The mail of the request was not delivered.
MailFailed == mails' = mails

\* C14: an Approve, a Reject or a donation-center signup whose store change is
\* in the tables and whose mail was not delivered answers 200.
C14_MailFailureNotSurfaced ==
    [][ ( /\ \/ last'.op \in {"approve", "reject"}
             \/ IsCenterSignup(last')
          /\ tables' # tables
          /\ MailFailed ) =>
          last'.status = 200
      ]_vars

(***************************************************************************)
(* Invariants of the tables.                                               *)
(***************************************************************************)
\* The rows of the profile tables with the id of the row a.
ProfilesOf(a) ==
    { <<"user", u>> : u \in { r \in user : r.id = a.id } }
      \cup { <<"donation_center", d>> : d \in { r \in donation_center : r.id = a.id } }

\* C15: every account row has exactly one profile row (user or donation_center)
\* with its id, and every pending_account row has exactly one
\* pending_donation_center row with its id.
C15_ExactlyOneProfile ==
    /\ \A a \in account : Cardinality(ProfilesOf(a)) = 1
    /\ \A a \in pending_account :
         Cardinality({ r \in pending_donation_center : r.id = a.id }) = 1

\* C16: no pending_account row has the id of an account row.
C16_PendingIdsApartFromAccountIds ==
    Ids(pending_account) \cap Ids(account) = {}

(***************************************************************************)
(* Order of the statements of Approve.                                     *)
(***************************************************************************)
\* The store statements of the handler, in the order it ran them.
RECURSIVE StatementsOf(_)
StatementsOf(trace) ==
    IF trace = <<>> THEN <<>>
    ELSE (IF Head(trace) \in {"begin", "commit", "rollback", "sendMail", "res.json"}
          THEN <<>> ELSE <<Head(trace)>>) \o StatementsOf(Tail(trace))

\* The sequence s is a prefix of the sequence t.
IsPrefix(s, t) == Len(s) <= Len(t) /\ s = SubSeq(t, 1, Len(s))

\* The statements an Approve ran follow the order, and a committed one ran all.
ApproveFollows(order) ==
    last'.op = "approve" =>
      /\ IsPrefix(StatementsOf(last'.trace), order)
      /\ Reached(last', "commit") => StatementsOf(last'.trace) = order

\* C17 as stated: the Approve transaction deletes the pending account, deletes
\* the pending profile, inserts the account, inserts the profile, in this order.
C17_AccountDeletedFirst ==
    [][ ApproveFollows(<<"delete pending_account", "delete pending_donation_center",
                         "insert account", "insert donation_center">>) ]_vars

\* C17: the Approve transaction deletes the pending profile, deletes the
\* pending account, inserts the account, inserts the profile, in this order; a
\* statement that fails ends the transaction at that statement.
C17_ProfileDeletedFirst ==
    [][ ApproveFollows(<<"delete pending_donation_center", "delete pending_account",
                         "insert account", "insert donation_center">>) ]_vars

\* An Approve has committed its four statements and its mail was not delivered.
C17_Witness ==
    /\ last.op = "approve"
    /\ Reached(last, "commit")
    /\ last.status # 200
    /\ Len(StatementsOf(last.trace)) = 4

Stored(req) ==
    \E a \in Tables[AccountTable(req.role)] :
        /\ a.email = req.account.email
        /\ a.username = req.account.username
        /\ \E q \in Tables[ProfileTable(req.role)] : q.id = a.id

\* C19: when the latest response is a signup success, the account row and the
\* profile row of that signup are stored (the transaction has committed).
C19_ResponseAfterCommit ==
    (last.op = "signup" /\ last.status = 200) => Stored(last.req)

(***************************************************************************)
(* Concurrent decisions on one pending id.                                 *)
(***************************************************************************)
\* The step is an Approve or a Reject that changes the tables.
Succeeds ==
    /\ last'.op \in {"approve", "reject"}
    /\ tables' # tables

\* The kinds of decision mails delivered for the id.
DecisionMails(id) ==
    { m.kind : m \in { n \in mails : n.id = id /\ n.kind \in {"approved", "rejected"} } }

\* C20: under every interleaving of the steps of Approve with Reject and with
\* other Approves, a request that succeeds on an id takes the id out of
\* pending_account, an id taken out never comes back, an Approve that succeeds
\* adds one account, and no id gets both an approval and a rejection mail: at
\* most one request succeeds for a pending id.
C20_AtMostOneDecision ==
    [][ /\ Succeeds =>
               /\ last'.req.id \in Ids(pending_account)
               /\ last'.req.id \notin Ids(pending_account')
        /\ \A id \in Ids(pending_account') \ Ids(pending_account) : id > pendingSeq
        /\ (last'.op = "approve" /\ tables' # tables) =>
               Cardinality(account' \ account) = 1
        /\ \A m \in mails' : Cardinality(DecisionMails(m.id)') <= 1
      ]_vars

\* A Reject(id) has succeeded while the transaction of an Approve(id) is open.
C20_Witness ==
    /\ last.op = "reject"
    /\ last.status = 200
    /\ \E i \in 1..Len(trx) : trx[i].op = "approve" /\ trx[i].id = last.req.id

====
